---- MODULE Spec2Model ----
(***************************************************************************)
(* The OMAR archive writer (omar.c): main opens the output, archive_create *)
(* walks the input directory depth-first and file_push appends one record  *)
(* per visited entry to the output descriptor.                             *)
(*                                                                         *)
(* Byte counts reach and exceed 2^32, so a byte count n is kept as the     *)
(* pair [blk |-> n \div 512, off |-> n % 512].  File content is not kept   *)
(* byte by byte: the output is a sequence of segments, each naming the     *)
(* entry it belongs to, what it holds and how many bytes it has.           *)
(* write(2) on the output is taken to transfer every byte it is given.     *)
(***************************************************************************)
EXTENDS Integers, Sequences, FiniteSets, TLC

VARIABLES
    pc,       \* position of main: "start", "walk", "close", "done", "crashed", "probe", "probed"
    tree,     \* the input directory tree given by -i
    oldLen,   \* length of whatever the output path held before the run
    stack,    \* the active archive_create calls, innermost last
    out,      \* the segments written to outfd so far, in order
    fds,      \* the descriptors and directory streams currently open
    retval,   \* the value main returns
    faults,   \* number of failed system or library calls so far
    calls     \* history: every file_push / archive_create call that returned

vars == <<pc, tree, oldLen, stack, out, fds, retval, faults, calls>>

----------------------------------------------------------------------------
(* Bounds of the model *)

\* at most this many calls (open, fstat, malloc, read, realloc, opendir) fail in one run
MaxFaults == 1

----------------------------------------------------------------------------
(* Program constants *)

OMAR_DIR == 1
BLOCK_SIZE == 512
\* log2(BLOCK_SIZE)
BlockShift == 9
\* bits of uint32_t (hdr.nextptr, hdr.len)
Width == 32
\* bits of uint8_t (hdr.namelen)
NameWidth == 8
\* sizeof(struct omar_hdr), packed: magic[4], type, nextptr, len, namelen
HdrSize == 4 + 2 + 4 + 4 + 1
ENOENT == 2
EIO == 5
ENOMEM == 12
\* number of blocks in 2^Width bytes
Blk32 == 2^(Width - BlockShift)

----------------------------------------------------------------------------
(* Byte counts as block/offset pairs *)

B(n) == [blk |-> n \div BLOCK_SIZE, off |-> n % BLOCK_SIZE]

Add(a, b) ==
    LET o == a.off + b.off
    IN  [blk |-> a.blk + b.blk + (o \div BLOCK_SIZE), off |-> o % BLOCK_SIZE]

Less(a, b) == a.blk < b.blk \/ (a.blk = b.blk /\ a.off < b.off)

Max(a, b) == IF Less(a, b) THEN b ELSE a

\* conversion of a wider value to uint32_t
U32(a) == [blk |-> a.blk % Blk32, off |-> a.off]

\* variant: (value + align) & ~(align - 1)
ALIGN_UP_OffByOne(value) ==
    LET s == U32(Add(value, B(BLOCK_SIZE))) IN [blk |-> s.blk, off |-> 0]
\* ALIGN_UP(value, BLOCK_SIZE) on a uint32_t value: the sum wraps at 2^32,
\* and the mask clears the low BlockShift bits
ALIGN_UP(value) ==
    LET s == U32(Add(value, B(BLOCK_SIZE - 1))) IN [blk |-> s.blk, off |-> 0]

----------------------------------------------------------------------------
(* The input trees *)

Root == 0
Nodes == 0 .. 9

Name ==
    [n \in Nodes |->
        CASE n = 0 -> <<"r", "o", "o", "t">>
          [] n = 1 -> <<"a", ".", "t", "x", "t">>
          [] n = 2 -> <<"s", "u", "b">>
          [] n = 3 -> <<"b", ".", "t", "x", "t">>
          [] n = 4 -> <<".", "h", "i", "d">>
          [] n = 5 -> <<"c">>
          [] n = 6 -> <<".", "x">>
          [] n = 7 -> <<"z">>
          [] n = 8 -> <<"l", "n", "k">>
          [] n = 9 -> <<"d">>]

\* d_type of the directory entry; S_ISDIR of its st_mode agrees with it
DType ==
    [n \in Nodes |->
        IF n \in {0, 2, 4, 9} THEN "DT_DIR"
        ELSE IF n = 8 THEN "DT_LNK" ELSE "DT_REG"]

TreeIds == {"flat", "nested", "deep"}

\* the entries readdir yields for each directory, in the order it yields them
Children(t) ==
    [n \in Nodes |->
        CASE t = "flat"   /\ n = 0 -> <<1, 7>>
          [] t = "nested" /\ n = 0 -> <<1, 4, 2, 8, 7>>
          [] t = "nested" /\ n = 2 -> <<6, 3>>
          [] t = "nested" /\ n = 4 -> <<5>>
          [] t = "deep"   /\ n = 0 -> <<2, 7>>
          [] t = "deep"   /\ n = 2 -> <<9>>
          [] t = "deep"   /\ n = 9 -> <<3>>
          [] OTHER -> <<>>]

\* st_size a regular file may report
FileSizes == {B(0), B(5), B(512), B(600), [blk |-> Blk32, off |-> 5]}
\* st_size a directory may report (filesystem-defined)
DirSizes == {B(0), B(4096)}
StSizes(n) == IF DType[n] = "DT_DIR" THEN DirSizes ELSE FileSizes

\* what the output path may hold before the run (0: nothing)
OldLens == {B(0), B(4096)}

\* hdr.type is never initialised: the bits the stack slot may hold
TypeGarbage == {0, 1}

----------------------------------------------------------------------------
(* Records and segments of the output *)

\* the fields of struct omar_hdr as file_push fills them before writing:
\* type is still uninitialised stack memory when the header is written
MakeHdr(name, st_size, garbage) ==
    LET len == U32(st_size)
    IN  [magic   |-> "OMAR",
         type    |-> garbage,
         len     |-> len,
         namelen |-> Len(name) % (2^NameWidth),
         nextptr |-> U32(Add(B(HdrSize), ALIGN_UP(len)))]

\* placeholders: a segment that is no header, a call that learnt no st_size
NoHdr == [magic |-> "", type |-> 0, len |-> B(0), namelen |-> 0, nextptr |-> B(0)]
NoSize == [blk |-> -1, off |-> 0]

\* write(outfd, &hdr, sizeof(hdr))
HdrSeg(n, h) == [kind |-> "hdr", node |-> n, size |-> B(HdrSize), hdr |-> h]
\* write(outfd, name, hdr.namelen)
NameSeg(n, h) == [kind |-> "name", node |-> n, size |-> B(h.namelen), hdr |-> NoHdr]
\* write(outfd, buf, hdr.len): the first hdr.len bytes of the file
DataSeg(n, h) == [kind |-> "data", node |-> n, size |-> h.len, hdr |-> NoHdr]
\* write(outfd, buf, pad_len) after memset(buf, 0, pad_len)
PadSeg(n, pad_len) == [kind |-> "pad", node |-> n, size |-> B(pad_len), hdr |-> NoHdr]

InFd(n) == [kind |-> "infd", node |-> n]
DirStream(n) == [kind |-> "dp", node |-> n]
OutFd == [kind |-> "outfd", node |-> Root]

Result(rc, segs, leak, nf, crash, st_size) ==
    [rc |-> rc, segs |-> segs, leak |-> leak, nf |-> nf, crash |-> crash,
     st_size |-> st_size]

\* file_push after open and fstat succeeded with this st_size
file_push_stat(n, st_size, garbage, canFail) ==
    LET h       == MakeHdr(Name[n], st_size, garbage)
        head    == <<HdrSeg(n, h), NameSeg(n, h)>>
        rem     == h.len.off
        pad_len == BLOCK_SIZE - rem
        empty   == h.len = B(0)
    IN  IF DType[n] = "DT_DIR"
        THEN {Result(0, head, {}, 0, FALSE, st_size)}
        ELSE
            \* malloc(hdr.len) returns NULL: always possible for a zero size
            (IF empty THEN {Result(-ENOMEM, head, {}, 0, FALSE, st_size)} ELSE {})
            \cup (IF canFail THEN {Result(-ENOMEM, head, {}, 1, FALSE, st_size)} ELSE {})
            \* read returns 0 for a zero count, -1 on failure
            \cup (IF empty THEN {Result(-EIO, head, {}, 0, FALSE, st_size)} ELSE {})
            \cup (IF canFail THEN {Result(-EIO, head, {}, 1, FALSE, st_size)} ELSE {})
            \* content, then padding when hdr.len is no multiple of the block
            \cup (IF empty THEN {}
                  ELSE IF rem # 0
                  THEN {Result(0, head \o <<DataSeg(n, h), PadSeg(n, pad_len)>>,
                               {}, 0, FALSE, st_size)}
                       \* realloc returns NULL and memset writes through it
                       \cup (IF canFail
                             THEN {Result(0, head \o <<DataSeg(n, h)>>,
                                          {}, 1, TRUE, st_size)}
                             ELSE {})
                  ELSE {Result(0, head \o <<DataSeg(n, h)>>, {}, 0, FALSE, st_size)})

\* every way one call file_push(pathname of n, name of n) can go
file_push(n, canFail) ==
    \* open fails: nothing is written
    (IF canFail THEN {Result(-1, <<>>, {}, 1, FALSE, NoSize)} ELSE {})
    \* fstat fails: returns with infd still open
    \cup (IF canFail THEN {Result(-1, <<>>, {InFd(n)}, 1, FALSE, NoSize)} ELSE {})
    \cup UNION {file_push_stat(n, sz, g, canFail) : sz \in StSizes(n), g \in TypeGarbage}

\* variant: only the entries "." and ".." are skipped
IsDotOrDotDot(name) == name \in {<<".">>, <<".", ".">>}
\* ent->d_name[0] == '.'
IsHidden(name) == Len(name) > 0 /\ name[1] = "."

----------------------------------------------------------------------------
(* The run *)

Frame(n) == [dir |-> n, idx |-> 1, st |-> "opendir"]

Top == stack[Len(stack)]
Entry == Children(tree)[Top.dir][Top.idx]
Walking == pc = "walk" /\ stack # <<>>
AtEntry ==
    Walking /\ Top.st = "loop" /\ Top.idx <= Len(Children(tree)[Top.dir])

CallRec(fn, n, rc, st_size) == [fn |-> fn, node |-> n, rc |-> rc, size |-> st_size]

\* the loop of the calling frame goes on to its next entry
Advance(stk) == [stk EXCEPT ![Len(stk)].idx = @ + 1]

\* variant: the subdirectory is walked only after the caller's loop has ended
CallDeferred(stk, e) == <<Frame(e)>> \o Advance(stk)
\* archive_create(pathbuf, ...) called from the loop: the callee runs to its
\* return before the caller reads its next entry
Call(stk, e) == Append(Advance(stk), Frame(e))

Init ==
    /\ pc = "start"
    /\ tree \in TreeIds
    /\ oldLen \in OldLens
    /\ stack = <<>>
    /\ out = <<>>
    /\ fds = {}
    /\ retval = 0
    /\ faults = 0
    /\ calls = <<>>

\* main: open(outpath, O_WRONLY | O_CREAT, ...), then the call of archive_create
main_open ==
    /\ pc = "start"
    /\ \/ /\ pc' = "walk"
          /\ fds' = fds \cup {OutFd}
          /\ stack' = <<Frame(Root)>>
          /\ UNCHANGED <<retval, faults>>
       \/ /\ faults < MaxFaults
          /\ pc' = "done"
          /\ retval' = -1
          /\ faults' = faults + 1
          /\ UNCHANGED <<fds, stack>>
    /\ UNCHANGED <<tree, oldLen, out, calls>>

\* return rc from the innermost archive_create: main keeps the value of the
\* outermost call, the loop drops the value of a nested one
archive_create_return(rc) ==
    /\ calls' = Append(calls, CallRec("archive_create", Top.dir, rc, NoSize))
    /\ stack' = SubSeq(stack, 1, Len(stack) - 1)
    /\ IF Len(stack) = 1
       THEN pc' = "close" /\ retval' = rc
       ELSE UNCHANGED <<pc, retval>>

\* opendir(base)
archive_create_opendir ==
    /\ Walking /\ Top.st = "opendir"
    /\ \/ /\ stack' = [stack EXCEPT ![Len(stack)].st = "loop"]
          /\ fds' = fds \cup {DirStream(Top.dir)}
          /\ UNCHANGED <<pc, retval, faults, calls>>
       \/ /\ faults < MaxFaults
          /\ faults' = faults + 1
          /\ archive_create_return(-ENOENT)
          /\ UNCHANGED fds
    /\ UNCHANGED <<tree, oldLen, out>>

\* readdir yields an entry whose name begins with '.': continue
archive_create_hidden ==
    /\ AtEntry /\ IsHidden(Name[Entry])
    /\ stack' = Advance(stack)
    /\ UNCHANGED <<pc, tree, oldLen, out, fds, retval, faults, calls>>

\* the effects of one file_push call that ended as r
Pushed(e, r) ==
    /\ out' = out \o r.segs
    /\ fds' = fds \cup r.leak
    /\ faults' = faults + r.nf
    /\ calls' = IF r.crash THEN calls
                ELSE Append(calls, CallRec("file_push", e, r.rc, r.st_size))

\* readdir yields a directory: file_push, then archive_create on it
archive_create_dir ==
    /\ AtEntry /\ ~IsHidden(Name[Entry]) /\ DType[Entry] = "DT_DIR"
    /\ \E r \in file_push(Entry, faults < MaxFaults) :
          /\ Pushed(Entry, r)
          /\ stack' = Call(stack, Entry)
    /\ UNCHANGED <<pc, tree, oldLen, retval>>

\* readdir yields a regular file: file_push
archive_create_reg ==
    /\ AtEntry /\ ~IsHidden(Name[Entry]) /\ DType[Entry] = "DT_REG"
    /\ \E r \in file_push(Entry, faults < MaxFaults) :
          /\ Pushed(Entry, r)
          /\ IF r.crash
             THEN pc' = "crashed" /\ UNCHANGED stack
             ELSE stack' = Advance(stack) /\ UNCHANGED pc
    /\ UNCHANGED <<tree, oldLen, retval>>

\* readdir yields an entry that is neither: nothing is done with it
archive_create_other ==
    /\ AtEntry /\ ~IsHidden(Name[Entry]) /\ DType[Entry] \notin {"DT_DIR", "DT_REG"}
    /\ stack' = Advance(stack)
    /\ UNCHANGED <<pc, tree, oldLen, out, fds, retval, faults, calls>>

\* readdir returns NULL: return 0, dp is not closed
archive_create_end ==
    /\ Walking /\ Top.st = "loop" /\ Top.idx > Len(Children(tree)[Top.dir])
    /\ archive_create_return(0)
    /\ UNCHANGED <<tree, oldLen, out, fds, faults>>

\* main: close(outfd); return retval
main_close ==
    /\ pc = "close"
    /\ fds' = fds \ {OutFd}
    /\ pc' = "done"
    /\ UNCHANGED <<tree, oldLen, stack, out, retval, faults, calls>>

Next ==
    \/ main_open
    \/ archive_create_opendir
    \/ archive_create_hidden
    \/ archive_create_dir
    \/ archive_create_reg
    \/ archive_create_other
    \/ archive_create_end
    \/ main_close

Spec == Init /\ [][Next]_vars

----------------------------------------------------------------------------
(* The header computation on its own: lines 105-111 of file_push applied to *)
(* any st_size and name                                                     *)

ProbeBlks == {0, 1, 2, Blk32 - 2, Blk32 - 1}
ProbeSizes == {[blk |-> b, off |-> o] : b \in ProbeBlks, o \in 0 .. (BLOCK_SIZE - 1)}

HdrInit ==
    /\ pc = "probe"
    /\ tree = "flat"
    /\ oldLen = B(0)
    /\ stack = <<>>
    /\ out = <<>>
    /\ fds = {}
    /\ retval = 0
    /\ faults = 0
    /\ calls = <<>>

WriteHeader ==
    /\ pc = "probe"
    /\ \E n \in {1, 2}, sz \in ProbeSizes, g \in TypeGarbage :
          LET h == MakeHdr(Name[n], sz, g)
          IN  out' = out \o <<HdrSeg(n, h), NameSeg(n, h)>>
    /\ pc' = "probed"
    /\ UNCHANGED <<tree, oldLen, stack, fds, retval, faults, calls>>

HdrNext == WriteHeader

HdrSpec == HdrInit /\ [][HdrNext]_vars

----------------------------------------------------------------------------
(* Reading the output back *)

HdrIdx == {i \in 1 .. Len(out) : out[i].kind = "hdr"}

RECURSIVE SizeSum(_, _)
\* number of bytes in the first k segments of segs
SizeSum(segs, k) == IF k = 0 THEN B(0) ELSE Add(SizeSum(segs, k - 1), segs[k].size)

\* byte offset at which segment i starts
OffsetOf(i) == SizeSum(out, i - 1)
EndOfStream == SizeSum(out, Len(out))

\* index of the header after segment i, or one past the last segment
NextHdr(i) ==
    LET later == {j \in HdrIdx : j > i}
    IN  IF later = {} THEN Len(out) + 1
        ELSE CHOOSE j \in later : \A k \in later : j <= k

\* the segments between the name of header i and the next header
Payload(i) == SubSeq(out, i + 2, NextHdr(i) - 1)
PayloadBytes(i) == SizeSum(Payload(i), Len(Payload(i)))

\* the file_push calls that returned, by entry
Pushes(n) == {k \in 1 .. Len(calls) : calls[k].fn = "file_push" /\ calls[k].node = n}
Failed == \E k \in 1 .. Len(calls) : calls[k].rc # 0

\* length of the output file once the run is over: the output is opened
\* without O_TRUNC and written from offset 0
FinalFileLen == Max(oldLen, EndOfStream)

\* align_up(n, 512) = ((n + 511) / 512) * 512 over the naturals
AlignUpNat(n) == [blk |-> Add(n, B(BLOCK_SIZE - 1)).blk, off |-> 0]

\* the leaf name begins with '.'
DotName(n) == Name[n][1] = "."

RECURSIVE PreOrderFrom(_, _), PreOrderList(_, _, _)
\* pre-order of the subtree of entry n in tree t: n itself, then the subtrees
\* of its entries in the order the listing yields them
PreOrderFrom(t, n) == <<n>> \o PreOrderList(t, Children(t)[n], 1)
PreOrderList(t, kids, k) ==
    IF k > Len(kids) THEN <<>>
    ELSE PreOrderFrom(t, kids[k]) \o PreOrderList(t, kids, k + 1)

RECURSIVE VisibleFrom(_, _), VisibleList(_, _, _)
\* the entries of the subtree of n in tree t that are neither hidden nor
\* beneath a hidden directory, n itself taken to be visible
VisibleFrom(t, n) == <<n>> \o VisibleList(t, Children(t)[n], 1)
VisibleList(t, kids, k) ==
    IF k > Len(kids) THEN <<>>
    ELSE (IF DotName(kids[k]) THEN <<>> ELSE VisibleFrom(t, kids[k]))
         \o VisibleList(t, kids, k + 1)

InSeq(seq, n) == \E k \in 1 .. Len(seq) : seq[k] = n

----------------------------------------------------------------------------
(* Claims *)

\* a regular-file record whose file_push call returned 0
Archived(i) ==
    /\ DType[out[i].node] = "DT_REG"
    /\ \E k \in Pushes(out[i].node) : calls[k].rc = 0

\* true length of the file behind header i, as fstat reported it
TrueLen(i) == calls[CHOOSE k \in Pushes(out[i].node) : TRUE].size

\* C1: for every regular file of length L that file_push archives, the bytes
\* between the entry's name and the next header number align_up(L, 512); the
\* first L are the file's content and the other align_up(L, 512) - L are zero
C1_PayloadIsPaddedContent ==
    \A i \in HdrIdx :
        Archived(i) =>
            LET L == TrueLen(i)
                n == out[i].node
            IN  /\ PayloadBytes(i) = AlignUpNat(L)
                /\ Len(Payload(i)) >= 1
                /\ Payload(i)[1].kind = "data"
                /\ Payload(i)[1].node = n
                /\ Payload(i)[1].size = L
                /\ \A k \in 2 .. Len(Payload(i)) : Payload(i)[k].kind = "pad"

\* the run ended, every call in it returned 0, and the input was the flat directory
CleanFlatRun ==
    pc = "done" /\ tree = "flat" /\ ~Failed /\ retval = 0

\* C2: in a flat directory of regular files, each header's nextptr is the byte
\* distance from the start of that header to the start of the next header, the
\* last one's to end-of-stream
C2_NextptrChainsHeaders ==
    CleanFlatRun =>
        \A i \in HdrIdx :
            Add(OffsetOf(i), out[i].hdr.nextptr) = OffsetOf(NextHdr(i))

\* bit 0 of a type field
DirBit(type) == (type \div OMAR_DIR) % 2 = 1

\* C3: in every header written, the directory flag is set if and only if the
\* entry is a directory
C3_DirFlagIffDirectory ==
    \A i \in HdrIdx : DirBit(out[i].hdr.type) <=> DType[out[i].node] = "DT_DIR"

\* C4: every directory record carries len = 0, no content or padding follows
\* its name, and the directory's st_size is not inside nextptr
C4_DirectoryLenZero ==
    \A i \in HdrIdx :
        DType[out[i].node] = "DT_DIR" =>
            /\ out[i].hdr.len = B(0)
            /\ out[i].hdr.nextptr = B(HdrSize)
            /\ Payload(i) = <<>>

\* C5: no record of an entry whose name begins with '.' is written, and no
\* entry beneath a hidden directory is visited or written
C5_HiddenNeverArchived ==
    LET visible == VisibleFrom(tree, Root)
    IN  /\ \A i \in 1 .. Len(out) : InSeq(visible, out[i].node)
        /\ \A k \in 1 .. Len(calls) : InSeq(visible, calls[k].node)
        /\ \A k \in 1 .. Len(stack) : InSeq(visible, stack[k].dir)

C5_Witness ==
    /\ pc = "done" /\ tree = "nested" /\ faults = 0
    /\ \E i \in HdrIdx : out[i].node = 3
    /\ \E i \in HdrIdx : out[i].node = 7
    /\ \E k \in 1 .. Len(calls) : calls[k].fn = "archive_create" /\ calls[k].node = 2

\* C6: records are written in pre-order: a directory's record before the
\* records of its descendants, all of them before the record of the
\* directory's next sibling, siblings in the order the listing yields them
C6_PreOrder ==
    LET order   == PreOrderFrom(tree, Root)
        rank(n) == CHOOSE k \in 1 .. Len(order) : order[k] = n
    IN  \A i, j \in HdrIdx :
            i < j => rank(out[i].node) < rank(out[j].node)

C6_Witness ==
    /\ pc = "done" /\ tree = "nested"
    /\ \E i, j, k \in HdrIdx :
          /\ out[i].node = 2 /\ out[j].node = 3 /\ out[k].node = 7
          /\ i < j /\ j < k

\* C7: if file_push or a nested archive_create failed anywhere in the tree,
\* the value main returns is non-zero
C7_FailureSurfaces ==
    (pc = "done" /\ Failed) => retval # 0

\* C8: when the run returns, no descriptor or directory stream it opened is
\* still open
C8_AllDescriptorsClosed ==
    pc = "done" => fds = {}

\* C9: after a successful run (main returns 0 and no call in it failed) the
\* output file holds exactly the records written in this run, whatever the
\* path held before: end of file is end of archive
C9_OutputIsFresh ==
    (pc = "done" /\ retval = 0 /\ ~Failed) => FinalFileLen = EndOfStream

FitsAligned(len) == ~Less([blk |-> Blk32 - 1, off |-> 0], len)

====
